---- MODULE Spec2Model ----
(***************************************************************************)
(* State-machine model of server.js: the HTTPS client adapter, the two     *)
(* prompt generators, the Gemini image generator and the request listener. *)
(*                                                                         *)
(* JavaScript values are tagged records, so that property reads on         *)
(* null/undefined, truthiness tests and for-of iteration behave as the     *)
(* language defines them.                                                  *)
(***************************************************************************)
EXTENDS Integers, Sequences, FiniteSets, TLC

VARIABLES gi, pg, server, unhandledRejections, reqs, invs

vars == <<gi, pg, server, unhandledRejections, reqs, invs>>

\* ------------------------------------------------------------ bounds

\* longest platform list handed to generateImagesGemini
MaxPlatforms == 2

\* number of inbound HTTP requests the listener sees
NumRequests == 2

\* number of generateImagesGemini invocations in progress at once
NumInvocations == 2

\* ------------------------------------------------------- JS values

Undef == [t |-> "undefined"]

Null == [t |-> "null"]

Fn == [t |-> "function"]

Str(s) == [t |-> "string", s |-> s]

Arr(a) == [t |-> "array", a |-> a]

Obj(f) == [t |-> "object", f |-> f]

\* ToBoolean of the values that occur here
Truthy(v) == ~(v.t \in {"undefined", "null"} \/ (v.t = "string" /\ v.s = ""))

\* does reading a property of v throw a TypeError
Nullish(v) == v.t \in {"undefined", "null"}

\* v.k for a value that is not null/undefined; JSON objects have only own keys
Get(v, k) ==
    IF v.t = "object" /\ k \in DOMAIN v.f THEN v.f[k] ELSE Undef

\* v[0]
First(v) ==
    IF v.t = "array" /\ Len(v.a) > 0 THEN v.a[1]
    ELSE IF v.t = "string" /\ v.s # "" THEN Str("c")
    ELSE Undef

\* can for-of iterate v
Iterable(v) == v.t \in {"array", "string"}

\* ------------------------------------------------ makeHTTPSRequest

\* what the network does to one outbound call: a transport error, a body that
\* is JSON text of value v, or a body that is not JSON
WireError == [wire |-> "error"]

WireJSON(v) == [wire |-> "json", v |-> v]

WireText(s) == [wire |-> "text", s |-> s]

\* the promise makeHTTPSRequest returns, once settled
makeHTTPSRequest(w) ==
    IF w.wire = "error" THEN [settled |-> "rejected", message |-> "ECONNRESET"]
    ELSE IF w.wire = "json" THEN [settled |-> "resolved", value |-> w.v]
    ELSE [settled |-> "resolved", value |-> Str(w.s)]

\* ---------------------------------------------------- platformSizes

platformSizes ==
    [Meta |-> Arr(<<[name |-> "Square Feed", width |-> 1080, height |-> 1080],
                    [name |-> "Portrait Story", width |-> 1080, height |-> 1920],
                    [name |-> "Landscape", width |-> 1200, height |-> 1200]>>),
     Reddit |-> Arr(<<[name |-> "Feed", width |-> 1200, height |-> 628],
                      [name |-> "Square", width |-> 960, height |-> 960]>>),
     Pinterest |-> Arr(<<[name |-> "Standard Pin", width |-> 1000, height |-> 1500],
                         [name |-> "Square", width |-> 1000, height |-> 1000]>>)]

\* platformSizes is an object literal: a read of a key it does not own goes to
\* Object.prototype, whose members are functions (or, for __proto__, an object)
ObjectPrototypeKeys ==
    {"constructor", "toString", "valueOf", "hasOwnProperty", "__proto__"}

\* platformSizes[platform]
platformSizesGet(platform) ==
    IF platform \in DOMAIN platformSizes THEN platformSizes[platform]
    ELSE IF platform = "__proto__" THEN Obj([x \in {} |-> Undef])
    ELSE IF platform \in ObjectPrototypeKeys THEN Fn
    ELSE Undef

\* const sizes = platformSizes[platform] || platformSizes['Meta'];
sizesFor(platform) ==
    IF Truthy(platformSizesGet(platform)) THEN platformSizesGet(platform)
    ELSE platformSizes["Meta"]

\* ------------------------------------------- Gemini response handling

\* parts.find(part => part.inline_data): the index of the first part at which
\* the search stops, either because the part is null/undefined (the callback
\* throws) or because its inline_data is truthy; 0 if it runs off the end
findStop(parts) ==
    LET hits == {k \in 1..Len(parts) :
                    Nullish(parts[k]) \/ Truthy(Get(parts[k], "inline_data"))}
    IN IF hits = {} THEN 0 ELSE CHOOSE k \in hits : \A h \in hits : k <= h

NoImage == [found |-> FALSE, mime |-> "", data |-> ""]

\* the body of the try block after the await: what, if anything, is pushed.
\* Every TypeError raised in there is caught by the catch of the same
\* iteration, so it is the same as finding nothing.
extractImage(response) ==
    IF Nullish(response) THEN NoImage
    ELSE LET candidates == Get(response, "candidates") IN
    IF ~(Truthy(candidates) /\ Truthy(First(candidates))) THEN NoImage
    ELSE LET content == Get(First(candidates), "content") IN
    IF ~(Truthy(content) /\ Truthy(Get(content, "parts"))) THEN NoImage
    ELSE LET parts == Get(content, "parts") IN
    IF parts.t # "array" THEN NoImage
    ELSE LET k == findStop(parts.a) IN
    IF k = 0 THEN NoImage
    ELSE IF Nullish(parts.a[k]) THEN NoImage
    ELSE LET inline == Get(parts.a[k], "inline_data") IN
    IF ~Truthy(Get(inline, "data")) THEN NoImage
    ELSE [found |-> TRUE,
          mime |-> IF Truthy(Get(inline, "mime_type"))
                   THEN Get(inline, "mime_type").s ELSE "image/png",
          data |-> Get(inline, "data").s]

\* the record images.push() appends
imageRecord(platform, size, e) ==
    [platform |-> platform, size |-> size.name, width |-> size.width,
     height |-> size.height,
     url |-> [scheme |-> "data", mime |-> e.mime, base64 |-> e.data]]

\* collect with a placeholder kept for a call that produced no image
collectPlaceholder(st, call, res) ==
    LET platform == st.platforms.a[call[1]]
        size == sizesFor(platform).a[call[2]]
        e == IF res.settled = "rejected" THEN NoImage ELSE extractImage(res.value)
    IN [st EXCEPT !.images = Append(@, imageRecord(platform, size, e))]

\* one iteration's try/catch around the settled call: push or skip
collect(st, call, res) ==
    LET platform == st.platforms.a[call[1]]
        size == sizesFor(platform).a[call[2]]
        e == IF res.settled = "rejected" THEN NoImage ELSE extractImage(res.value)
    IN IF e.found
       THEN [st EXCEPT !.images = Append(@, imageRecord(platform, size, e))]
       ELSE st

\* the call goes out but is not awaited: the loop moves on at once
requestNoAwait(st) ==
    [st EXCEPT !.pending = @ \cup {<<st.i, st.j>>}, !.j = @ + 1]

\* const response = await makeHTTPSRequest(...): the call goes out and the
\* function is suspended until it settles
requestAndAwait(st) ==
    [st EXCEPT !.pending = @ \cup {<<st.i, st.j>>}, !.pc = "awaiting"]

\* the two nested for-of loops, run from the cursor (i, j) up to the next
\* suspension, the return or an uncaught throw
RECURSIVE runLoop(_)
runLoop(st) ==
    IF st.pc # "running" THEN st
    ELSE IF st.j <= Len(st.sizes.a) THEN runLoop(requestAndAwait(st))
    ELSE IF st.i + 1 > Len(st.platforms.a) THEN [st EXCEPT !.pc = "returned"]
    ELSE LET sizes == sizesFor(st.platforms.a[st.i + 1]) IN
         IF ~Iterable(sizes)
         THEN [st EXCEPT !.i = @ + 1, !.sizes = sizes, !.pc = "thrown",
                         !.error = "sizes is not iterable"]
         ELSE runLoop([st EXCEPT !.i = @ + 1, !.j = 1, !.sizes = sizes])

giIdle ==
    [pc |-> "idle", platforms |-> Undef, i |-> 0, j |-> 1, sizes |-> Arr(<<>>),
     images |-> <<>>, pending |-> {}, attempts |-> <<>>, error |-> ""]

\* generateImagesGemini(prompt, platforms) up to its first suspension
generateImagesGemini(platforms) ==
    IF ~Iterable(platforms)
    THEN [giIdle EXCEPT !.platforms = platforms, !.pc = "thrown",
                        !.error = "platforms is not iterable"]
    ELSE runLoop([giIdle EXCEPT !.platforms = platforms, !.pc = "running"])

\* the continuation of generateImagesGemini when its outstanding call settles
resumeImages(st, call, res) ==
    runLoop([collect(st, call, res) EXCEPT !.pending = @ \ {call},
                                     !.pc = "running", !.j = @ + 1])

\* ------------------------------------------------ prompt generators

\* the value or the error a prompt generator ends with
Return(v) == [kind |-> "return", value |-> v, message |-> ""]

Throw(m) == [kind |-> "throw", value |-> Undef, message |-> m]

\* generatePromptClaude after the await: the shape test and the extraction
extractClaude(response) ==
    IF Nullish(response) THEN Throw("Cannot read properties of null")
    ELSE LET content == Get(response, "content") IN
    IF Truthy(content) /\ Truthy(First(content))
       /\ Truthy(Get(First(content), "text"))
    THEN Return(Get(First(content), "text"))
    ELSE Throw("Invalid Claude response")

\* generatePromptOpenAI after the await: the shape test and the extraction
extractOpenAI(response) ==
    IF Nullish(response) THEN Throw("Cannot read properties of null")
    ELSE LET choices == Get(response, "choices") IN
    IF Truthy(choices) /\ Truthy(First(choices))
       /\ Truthy(Get(First(choices), "message"))
    THEN Return(Get(Get(First(choices), "message"), "content"))
    ELSE Throw("Invalid OpenAI response")

pgIdle ==
    [pc |-> "idle", provider |-> "", wire |-> WireError, value |-> Undef,
     error |-> ""]

\* either generator up to its await: the request body is built with
\* platforms.join(', '), which throws when platforms is not an array
generatePrompt(provider, platforms) ==
    IF platforms.t # "array"
    THEN [pgIdle EXCEPT !.provider = provider, !.pc = "thrown",
                        !.error = "Cannot read properties of undefined"]
    ELSE [pgIdle EXCEPT !.provider = provider, !.pc = "awaiting"]

\* the continuation of a prompt generator when its call settles
resumePrompt(st, w) ==
    LET res == makeHTTPSRequest(w)
        out == IF res.settled = "rejected" THEN Throw(res.message)
               ELSE IF st.provider = "claude" THEN extractClaude(res.value)
               ELSE extractOpenAI(res.value)
    IN [st EXCEPT !.wire = w,
                  !.pc = IF out.kind = "return" THEN "returned" ELSE "thrown",
                  !.value = out.value, !.error = out.message]

\* --------------------------------------------------------- inputs

\* platform names a caller may send: the three of the table, one unknown to
\* it, and one that Object.prototype answers
PlatformNames == {"Meta", "Reddit", "Pinterest", "TikTok", "constructor"}

\* the platforms argument: an array of at most MaxPlatforms names, or the
\* undefined of a body without that field
PlatformLists ==
    {Arr(a) : a \in UNION {[1..n -> PlatformNames] : n \in 0..MaxPlatforms}}

PlatformArgs == PlatformLists \cup {Undef}

InlinePart(mime, data) ==
    Obj([inline_data |-> Obj([mime_type |-> Str(mime), data |-> Str(data)])])

TextPart == Obj([text |-> Str("Here is your image")])

GeminiBody(parts) ==
    WireJSON(Obj([candidates |-> Arr(<<Obj([content |-> Obj([parts |-> Arr(parts)])])>>)]))

\* provider outcomes that carry inline image data
GeminiImageWires ==
    {GeminiBody(<<TextPart, InlinePart("image/png", "QUJD")>>),
     GeminiBody(<<Obj([inline_data |-> Obj([data |-> Str("QUJD")])])>>)}

\* provider outcomes that carry none: transport error, non-JSON text, null,
\* an error payload, no candidates, a candidate without content, content
\* without parts, parts without inline data, inline data without bytes
GeminiEmptyWires ==
    {WireError,
     WireText("<html>502 Bad Gateway</html>"),
     WireJSON(Null),
     WireJSON(Obj([error |-> Obj([code |-> Str("429")])])),
     WireJSON(Obj([candidates |-> Arr(<<>>)])),
     WireJSON(Obj([candidates |-> Arr(<<Obj([finishReason |-> Str("SAFETY")])>>)])),
     WireJSON(Obj([candidates |-> Arr(<<Obj([content |-> Obj([role |-> Str("model")])])>>)])),
     GeminiBody(<<TextPart>>),
     GeminiBody(<<Obj([inline_data |-> Obj([mime_type |-> Str("image/png")])])>>)}

GeminiWires == GeminiImageWires \cup GeminiEmptyWires

ClaudeBody(item) == WireJSON(Obj([content |-> Arr(<<item>>)]))

OpenAIBody(choice) == WireJSON(Obj([choices |-> Arr(<<choice>>)]))

\* text-provider outcomes with a completion text
CompletionWires ==
    {ClaudeBody(Obj([type |-> Str("text"), text |-> Str("A couple at sunset")])),
     OpenAIBody(Obj([message |-> Obj([role |-> Str("assistant"),
                                      content |-> Str("A couple at sunset")])]))}

\* text-provider outcomes without one: transport error, non-JSON text, null, an
\* error payload, an empty completion list, an entry with absent or empty text
NoCompletionWires ==
    {WireError,
     WireText("<html>502 Bad Gateway</html>"),
     WireJSON(Null),
     WireJSON(Obj([error |-> Obj([type |-> Str("overloaded_error")])])),
     WireJSON(Obj([content |-> Arr(<<>>)])),
     WireJSON(Obj([choices |-> Arr(<<>>)])),
     ClaudeBody(Obj([type |-> Str("tool_use")])),
     ClaudeBody(Obj([type |-> Str("text"), text |-> Str("")])),
     OpenAIBody(Obj([finish_reason |-> Str("length")])),
     OpenAIBody(Obj([message |-> Obj([role |-> Str("assistant")])])),
     OpenAIBody(Obj([message |-> Obj([role |-> Str("assistant"), content |-> Null])])),
     OpenAIBody(Obj([message |-> Obj([role |-> Str("assistant"), content |-> Str("")])]))}

PromptWires == CompletionWires \cup NoCompletionWires

Providers == {"claude", "openai"}

\* ------------------------------------------------- request listener

\* the names server.js binds at module scope: its four require() constants,
\* the three keys, the four functions, server and PORT
ModuleBindings ==
    {"http", "https", "fs", "path",
     "ANTHROPIC_API_KEY", "OPENAI_API_KEY", "GOOGLE_AI_API_KEY",
     "makeHTTPSRequest", "generatePromptClaude", "generatePromptOpenAI",
     "generateImagesGemini", "server", "PORT"}

Methods == {"GET", "POST", "OPTIONS"}

Paths == {"/", "/index.html", "/api/generate-prompt", "/api/generate-images",
          "/favicon.ico"}

\* inbound bodies: not JSON, the JSON null, an object without platforms or
\* provider, and well-formed objects for either route
Bodies ==
    {WireText("campaignText=summer"),
     WireJSON(Null),
     WireJSON(Obj([campaignText |-> Str("summer campaign")])),
     WireJSON(Obj([campaignText |-> Str("summer campaign"),
                   platforms |-> Arr(<<"Meta">>), provider |-> Str("claude")])),
     WireJSON(Obj([campaignText |-> Str("summer campaign"),
                   platforms |-> Arr(<<"Meta">>), provider |-> Str("openai")])),
     WireJSON(Obj([prompt |-> Str("A couple at sunset"),
                   platforms |-> Arr(<<"Reddit">>)]))}

NoResponse == [kind |-> "none"]

reqIdle ==
    [state |-> "idle", method |-> "", path |-> "", body |-> WireText(""),
     cors |-> FALSE, status |-> 0, contentType |-> "", response |-> NoResponse,
     ended |-> 0, gens |-> <<>>, call |-> pgIdle, error |-> ""]

\* res.writeHead(status, headers); res.end(body)
respond(req, status, contentType, response) ==
    [req EXCEPT !.state = "responded", !.status = status,
                !.contentType = contentType, !.response = response,
                !.ended = @ + 1]

\* the async request listener up to its first return: line 239 reads the
\* name url, and a name that is not bound throws a ReferenceError, which
\* rejects the listener's promise before any header or status is written
requestListener(req) ==
    IF "url" \notin ModuleBindings
    THEN [req EXCEPT !.state = "rejected", !.error = "url is not defined"]
    ELSE LET cors == [req EXCEPT !.cors = TRUE] IN
         IF req.method = "OPTIONS"
         THEN respond(cors, 200, "", [kind |-> "empty"])
         ELSE IF req.path \in {"/", "/index.html"}
         THEN [cors EXCEPT !.state = "readingFile"]
         ELSE IF req.path = "/api/generate-prompt" /\ req.method = "POST"
         THEN [cors EXCEPT !.state = "readingPromptBody"]
         ELSE IF req.path = "/api/generate-images" /\ req.method = "POST"
         THEN [cors EXCEPT !.state = "readingImagesBody"]
         ELSE respond(cors, 404, "", [kind |-> "text", text |-> "Not found"])

\* the catch of a route's end callback: 500 with the error's message
respondError(req, message) ==
    respond(req, 500, "application/json",
            [kind |-> "json", success |-> FALSE, error |-> message])

\* fs.readFile's callback for / and /index.html
readFileCallback(req, err) ==
    IF err THEN respond(req, 404, "", [kind |-> "text", text |-> "File not found"])
    ELSE respond(req, 200, "text/html", [kind |-> "html"])

\* the end callback of /api/generate-prompt up to its await: parse, pick the
\* generator by provider === 'claude', call it
promptBodyEnd(req) ==
    IF req.body.wire # "json" THEN respondError(req, "Unexpected token")
    ELSE IF Nullish(req.body.v)
    THEN respondError(req, "Cannot destructure property of null")
    ELSE LET provider == IF Get(req.body.v, "provider") = Str("claude")
                         THEN "claude" ELSE "openai"
             call == generatePrompt(provider, Get(req.body.v, "platforms"))
             called == [req EXCEPT !.gens = Append(@, provider), !.call = call]
         IN IF call.pc = "thrown" THEN respondError(called, call.error)
            ELSE [called EXCEPT !.state = "awaitingPrompt"]

\* the same callback after the await
promptSettled(req, w) ==
    LET call == resumePrompt(req.call, w)
        settled == [req EXCEPT !.call = call]
    IN IF call.pc = "thrown" THEN respondError(settled, call.error)
       ELSE respond(settled, 200, "application/json",
                    [kind |-> "json", success |-> TRUE, prompt |-> call.value])

\* where the end callback of /api/generate-images stands once
\* generateImagesGemini has run as far as it can
imagesProgress(req, call) ==
    LET at == [req EXCEPT !.call = call] IN
    IF call.pc = "thrown" THEN respondError(at, call.error)
    ELSE IF call.pc = "returned"
    THEN respond(at, 200, "application/json",
                 [kind |-> "json", success |-> TRUE, images |-> call.images])
    ELSE [at EXCEPT !.state = "awaitingImages"]

\* the end callback of /api/generate-images up to its await
imagesBodyEnd(req) ==
    IF req.body.wire # "json" THEN respondError(req, "Unexpected token")
    ELSE IF Nullish(req.body.v)
    THEN respondError(req, "Cannot destructure property of null")
    ELSE imagesProgress([req EXCEPT !.gens = Append(@, "gemini")],
                        generateImagesGemini(Get(req.body.v, "platforms")))

\* the steps a request takes after the listener has returned normally. The
\* listener never does (requestListener), so no reachable state enables one
\* of them and Next does not list them.
ReadFileDone(r, err) ==
    /\ reqs[r].state = "readingFile"
    /\ reqs' = [reqs EXCEPT ![r] = readFileCallback(reqs[r], err)]
    /\ UNCHANGED <<gi, pg, server, unhandledRejections, invs>>

BodyEnd(r) ==
    /\ reqs[r].state \in {"readingPromptBody", "readingImagesBody"}
    /\ reqs' = [reqs EXCEPT ![r] =
                   IF reqs[r].state = "readingPromptBody"
                   THEN promptBodyEnd(reqs[r]) ELSE imagesBodyEnd(reqs[r])]
    /\ UNCHANGED <<gi, pg, server, unhandledRejections, invs>>

PromptCallSettles(r, w) ==
    /\ reqs[r].state = "awaitingPrompt"
    /\ reqs' = [reqs EXCEPT ![r] = promptSettled(reqs[r], w)]
    /\ UNCHANGED <<gi, pg, server, unhandledRejections, invs>>

ImageCallSettles(r, call, w) ==
    /\ reqs[r].state = "awaitingImages"
    /\ call \in reqs[r].call.pending
    /\ reqs' = [reqs EXCEPT ![r] =
                   imagesProgress(reqs[r],
                       resumeImages(reqs[r].call, call, makeHTTPSRequest(w)))]
    /\ UNCHANGED <<gi, pg, server, unhandledRejections, invs>>

Continuations ==
    \/ \E r \in 1..NumRequests, err \in BOOLEAN : ReadFileDone(r, err)
    \/ \E r \in 1..NumRequests : BodyEnd(r)
    \/ \E r \in 1..NumRequests, w \in PromptWires : PromptCallSettles(r, w)
    \/ \E r \in 1..NumRequests, w \in GeminiWires :
          \E call \in IF reqs[r].state = "awaitingImages"
                       THEN reqs[r].call.pending ELSE {} :
             ImageCallSettles(r, call, w)

Init ==
    /\ gi = giIdle
    /\ pg = pgIdle
    /\ server = "listening"
    /\ unhandledRejections \in {"throw", "warn"}
    /\ reqs = [r \in 1..NumRequests |-> reqIdle]
    /\ invs = [n \in 1..NumInvocations |-> giIdle]

\* a request arrives and http.Server calls the listener with it
Request(r, method, path, body) ==
    /\ server = "listening"
    /\ reqs[r].state = "idle"
    /\ reqs' = [reqs EXCEPT ![r] = requestListener(
                   [reqIdle EXCEPT !.state = "received", !.method = method,
                                   !.path = path, !.body = body])]
    /\ UNCHANGED <<gi, pg, server, unhandledRejections, invs>>

\* nothing handles the listener's rejected promise: the runtime's default
\* (throw) ends the process, the older default (warn) logs and goes on; the
\* request is left without a response either way
UnhandledRejection(r) ==
    /\ server = "listening"
    /\ reqs[r].state = "rejected"
    /\ reqs' = [reqs EXCEPT ![r].state = "abandoned"]
    /\ server' = IF unhandledRejections = "throw" THEN "crashed" ELSE server
    /\ UNCHANGED <<gi, pg, unhandledRejections, invs>>

Next ==
    \/ \E r \in 1..NumRequests, method \in Methods, path \in Paths :
          \E body \in IF method = "POST" THEN Bodies ELSE {WireText("")} :
             Request(r, method, path, body)
    \/ \E r \in 1..NumRequests : UnhandledRejection(r)

Spec == Init /\ [][Next]_vars

\* ---------------------------------------------------- direct invocation

\* generateImagesGemini is called with one platforms argument
CallGenerateImages(platforms) ==
    /\ gi.pc = "idle"
    /\ pg.pc = "idle"
    /\ gi' = generateImagesGemini(platforms)
    /\ UNCHANGED <<pg, server, unhandledRejections, reqs, invs>>

\* an outstanding image-provider call settles with outcome w; attempts keeps,
\* per settled call, its pair and whether the outcome carried image data
SettleImageCall(call, w) ==
    /\ gi.pc = "awaiting"
    /\ call \in gi.pending
    /\ LET platform == gi.platforms.a[call[1]] IN
       gi' = [resumeImages(gi, call, makeHTTPSRequest(w)) EXCEPT
                !.attempts = Append(gi.attempts,
                    [platform |-> platform,
                     size |-> sizesFor(platform).a[call[2]].name,
                     ok |-> w \in GeminiImageWires])]
    /\ UNCHANGED <<pg, server, unhandledRejections, reqs, invs>>

\* one of the prompt generators is called
CallGeneratePrompt(provider, platforms) ==
    /\ gi.pc = "idle"
    /\ pg.pc = "idle"
    /\ pg' = generatePrompt(provider, platforms)
    /\ UNCHANGED <<gi, server, unhandledRejections, reqs, invs>>

\* the text-provider call settles with outcome w
SettlePromptCall(w) ==
    /\ pg.pc = "awaiting"
    /\ pg' = resumePrompt(pg, w)
    /\ UNCHANGED <<gi, server, unhandledRejections, reqs, invs>>

NextGen ==
    \/ \E p \in PlatformArgs : CallGenerateImages(p)
    \/ \E call \in gi.pending, w \in GeminiWires : SettleImageCall(call, w)
    \/ \E provider \in Providers, p \in PlatformArgs : CallGeneratePrompt(provider, p)
    \/ \E w \in PromptWires : SettlePromptCall(w)

SpecGen == Init /\ [][NextGen]_vars

\* ------------------------------------------------ concurrent invocation

\* platform lists of the invocations that run side by side
PairPlatformLists ==
    {Arr(<<>>), Arr(<<"Meta">>), Arr(<<"Reddit">>), Arr(<<"Pinterest", "Reddit">>)}

\* one invocation's locals written back with the images array shared by
\* every invocation, as a module-level array would be
sharedImages(all, n, st) ==
    [m \in DOMAIN all |->
        IF m = n THEN st ELSE [all[m] EXCEPT !.images = st.images]]

\* const images = [] and the loop variables are locals of the call: a step of
\* invocation n writes the locals of invocation n and of no other
ownLocals(all, n, st) ==
    [all EXCEPT ![n] = st]

\* invocation n of generateImagesGemini starts while others are suspended
CallImagesOf(n, platforms) ==
    /\ invs[n].pc = "idle"
    /\ invs' = ownLocals(invs, n, generateImagesGemini(platforms))
    /\ UNCHANGED <<gi, pg, server, unhandledRejections, reqs>>

\* the outstanding call of invocation n settles with outcome w and the
\* invocation runs on to its next suspension
SettleImageCallOf(n, call, w) ==
    /\ invs[n].pc = "awaiting"
    /\ call \in invs[n].pending
    /\ LET platform == invs[n].platforms.a[call[1]] IN
       invs' = ownLocals(invs, n,
                 [resumeImages(invs[n], call, makeHTTPSRequest(w)) EXCEPT
                    !.attempts = Append(invs[n].attempts,
                        [platform |-> platform,
                         size |-> sizesFor(platform).a[call[2]].name,
                         ok |-> w \in GeminiImageWires])])
    /\ UNCHANGED <<gi, pg, server, unhandledRejections, reqs>>

NextPair ==
    \/ \E n \in 1..NumInvocations, p \in PairPlatformLists : CallImagesOf(n, p)
    \/ \E n \in 1..NumInvocations, w \in GeminiWires :
          \E call \in invs[n].pending : SettleImageCallOf(n, call, w)

\* the unhandled-rejection mode plays no part here: the runtime's default
InitPair == Init /\ unhandledRejections = "throw"

SpecPair == InitPair /\ [][NextPair]_vars

\* ------------------------------------------------ claims C1 to C4, C10

TableNames == {"Meta", "Reddit", "Pinterest"}

\* the size list the lookup is meant to give
IntendedSizes(platform) ==
    IF platform \in TableNames THEN platformSizes[platform].a
    ELSE platformSizes["Meta"].a

\* the expanded (platform, size) pair list of a platform list
RECURSIVE Expand(_)
Expand(names) ==
    IF names = <<>> THEN <<>>
    ELSE [k \in 1..Len(IntendedSizes(Head(names))) |->
            <<Head(names), IntendedSizes(Head(names))[k].name>>]
         \o Expand(Tail(names))

PairsOf(seq) == [k \in 1..Len(seq) |-> <<seq[k].platform, seq[k].size>>]

IsOk(a) == a.ok

\* C1: generateImagesGemini, called with any sequence of platform-name
\* strings and whatever the provider calls do, never raises to its caller.
C1_NeverRaises ==
    gi.platforms.t = "array" => gi.pc # "thrown"

\* C2: the returned sequence holds exactly one image for each (platform, size)
\* pair whose call returned inline image data, none for the others, in
\* platform-list order and within a platform in size-list order.
C2_SuccessfulPairsInOrder ==
    gi.pc = "returned" =>
        /\ PairsOf(gi.attempts) = Expand(gi.platforms.a)
        /\ PairsOf(gi.images) = PairsOf(SelectSeq(gi.attempts, IsOk))
        /\ \A k \in 1..Len(gi.images) :
              /\ gi.images[k].url.base64 # ""
              /\ \E size \in {IntendedSizes(gi.images[k].platform)[n] :
                                n \in 1..Len(IntendedSizes(gi.images[k].platform))} :
                    /\ size.name = gi.images[k].size
                    /\ size.width = gi.images[k].width
                    /\ size.height = gi.images[k].height

\* a returned invocation over two platforms with successes on both sides of a
\* failed call
C2_Witness ==
    /\ gi.pc = "returned"
    /\ Len(gi.platforms.a) = 2
    /\ gi.platforms.a[1] # gi.platforms.a[2]
    /\ \E k \in 2..(Len(gi.attempts) - 1) :
          /\ ~gi.attempts[k].ok
          /\ gi.attempts[k - 1].ok
          /\ gi.attempts[k + 1].ok
          /\ gi.attempts[k - 1].platform # gi.attempts[k + 1].platform

\* C3: the size lookup gives each of Meta, Reddit and Pinterest its own
\* non-empty list and every other string the list of Meta.
C3_SizeLookup ==
    (gi.platforms.t = "array" /\ gi.i \in 1..Len(gi.platforms.a)) =>
        /\ gi.sizes = Arr(IntendedSizes(gi.platforms.a[gi.i]))
        /\ gi.sizes.a # <<>>

\* the completion a provider's well-formed response carries
CompletionWire(provider) ==
    IF provider = "claude"
    THEN ClaudeBody(Obj([type |-> Str("text"), text |-> Str("A couple at sunset")]))
    ELSE OpenAIBody(Obj([message |-> Obj([role |-> Str("assistant"),
                                          content |-> Str("A couple at sunset")])]))

\* C4: a prompt generator whose provider response carries no completion
\* content fails, with the invalid-response error when the response is a JSON
\* object, and never returns an empty or undefined prompt; on a well-formed
\* response it returns the extracted text.
C4_PromptOrInvalidResponse ==
    /\ pg.pc = "returned" =>
          /\ pg.value = Str("A couple at sunset")
          /\ pg.wire = CompletionWire(pg.provider)
    /\ (pg.pc = "thrown" /\ pg.error # "Cannot read properties of undefined") =>
          /\ pg.wire # CompletionWire(pg.provider)
          /\ (pg.wire.wire = "json" /\ pg.wire.v.t = "object") =>
                pg.error \in {"Invalid Claude response", "Invalid OpenAI response"}

\* C10: within one invocation at most one provider call is outstanding, and a
\* call is issued only when no other call of the invocation is outstanding.
C10_CallsSerialized ==
    /\ [](Cardinality(gi.pending) <= 1)
    /\ [][\A c \in gi'.pending \ gi.pending : gi'.pending = {c}]_vars

\* the second platform's first call is outstanding after earlier calls settled
C10_Witness ==
    /\ gi.pc = "awaiting"
    /\ gi.pending = {<<2, 1>>}
    /\ Len(gi.attempts) >= 2

\* ------------------------------------------------------ claims C5 to C9

\* the listener and every callback it registered have run to their end
Finished(q) == q.state \in {"responded", "rejected", "abandoned"}

IsPromptPost(q) == q.method = "POST" /\ q.path = "/api/generate-prompt"

IsImagesPost(q) == q.method = "POST" /\ q.path = "/api/generate-images"

IsPageGet(q) == q.method = "GET" /\ q.path \in {"/", "/index.html"}

\* C5: a POST /api/generate-prompt ends with 200 {success:true, prompt} when
\* the selected generator returned, or with 500 {success:false, error} when
\* anything threw while handling it, and with nothing else.
C5_PromptRouteAnswers ==
    \A r \in 1..NumRequests :
        (Finished(reqs[r]) /\ IsPromptPost(reqs[r])) =>
            \/ /\ reqs[r].status = 200
               /\ reqs[r].response.kind = "json"
               /\ reqs[r].response.success
               /\ reqs[r].call.pc = "returned"
            \/ /\ reqs[r].status = 500
               /\ reqs[r].response.kind = "json"
               /\ ~reqs[r].response.success
               /\ reqs[r].response.error # ""

\* C6: a POST /api/generate-images ends with 500 {success:false, error} only
\* when its body is not JSON, and with 200 {success:true, images} for every
\* body that is.
C6_ImagesRouteFailsOnlyOnBadJSON ==
    \A r \in 1..NumRequests :
        (Finished(reqs[r]) /\ IsImagesPost(reqs[r])) =>
            IF reqs[r].body.wire = "json"
            THEN reqs[r].status = 200 /\ reqs[r].response.success
            ELSE reqs[r].status = 500 /\ ~reqs[r].response.success

\* C7: the page is served only for GET / and GET /index.html, and a request
\* that is none of GET /, GET /index.html, OPTIONS, POST /api/generate-prompt
\* and POST /api/generate-images ends with 404, a plain-text body and no
\* generator call.
C7_OtherRequestsNotFound ==
    \A r \in 1..NumRequests :
        Finished(reqs[r]) =>
            /\ reqs[r].response.kind = "html" => IsPageGet(reqs[r])
            /\ ~(\/ IsPageGet(reqs[r])
                 \/ reqs[r].method = "OPTIONS"
                 \/ IsPromptPost(reqs[r])
                 \/ IsImagesPost(reqs[r])) =>
                  /\ reqs[r].status = 404
                  /\ reqs[r].response.kind = "text"
                  /\ reqs[r].gens = <<>>

\* C8: an OPTIONS request to any path ends with 200, an empty body and the
\* CORS headers, and calls no generator.
C8_OptionsPreflight ==
    \A r \in 1..NumRequests :
        (Finished(reqs[r]) /\ reqs[r].method = "OPTIONS") =>
            /\ reqs[r].status = 200
            /\ reqs[r].response.kind = "empty"
            /\ reqs[r].cors
            /\ reqs[r].gens = <<>>

\* C9: a POST /api/generate-prompt with a parsable body calls exactly one
\* prompt generator, once: Claude when provider is "claude", OpenAI otherwise.
C9_OneGeneratorPerRequest ==
    \A r \in 1..NumRequests :
        (Finished(reqs[r]) /\ IsPromptPost(reqs[r]) /\ reqs[r].body.wire = "json") =>
            reqs[r].gens =
                IF ~Nullish(reqs[r].body.v)
                   /\ Get(reqs[r].body.v, "provider") = Str("claude")
                THEN <<"claude">> ELSE <<"openai">>

\* ---------------------------------------------------- claims C11 to C13

\* the calls an invocation has issued so far: the settled ones, in order,
\* then the outstanding one
IssuedPairs(st) ==
    PairsOf(st.attempts)
    \o [k \in 1..Cardinality(st.pending) |->
          LET call == CHOOSE c \in st.pending : TRUE
              platform == st.platforms.a[call[1]]
          IN <<platform, sizesFor(platform).a[call[2]].name>>]

IsPrefix(s, t) == Len(s) <= Len(t) /\ s = SubSeq(t, 1, Len(s))

\* C11: one invocation issues exactly one call per pair of the expanded
\* platform list, in order, and none twice, however many calls fail: when it
\* ends it has made as many calls as the platforms' size lists have entries,
\* none at all for an empty list, which returns the empty sequence.
C11_OneCallPerPair ==
    gi.platforms.t = "array" =>
        /\ Cardinality(gi.pending) <= 1
        /\ IsPrefix(IssuedPairs(gi), Expand(gi.platforms.a))
        /\ gi.pc \in {"returned", "thrown"} =>
              Len(gi.attempts) = Len(Expand(gi.platforms.a))
        /\ (gi.pc # "idle" /\ gi.platforms.a = <<>>) =>
              gi.pc = "returned" /\ gi.images = <<>> /\ gi.attempts = <<>>

C13_AnsweredExactlyOnce ==
    \A r \in 1..NumRequests :
        /\ reqs[r].ended <= 1
        /\ Finished(reqs[r]) => (reqs[r].ended = 1 /\ reqs[r].status # 0)

====
